---- MODULE Spec2Model ----
(***************************************************************************)
(* Air Crashes Analysis dashboard (src/app.py).                            *)
(*                                                                         *)
(* The script is a sequential program: it loads a table, preprocesses it   *)
(* (date composition + forward fill), reads three sidebar widgets, applies *)
(* the filters and computes the summaries shown on the page.  The model    *)
(* follows the script section by section; `pc` is the script's position.   *)
(*                                                                         *)
(* A DataFrame is a record                                                 *)
(*     [cols  : the set of column names,                                   *)
(*      index : the row labels (a sequence of naturals),                   *)
(*      data  : a sequence of rows, each a function cols -> value]         *)
(* Numeric columns hold integers with NaN as the missing value; text       *)
(* columns hold strings with None as the missing value.                    *)
(***************************************************************************)
EXTENDS Integers, Sequences, FiniteSets, TLC

VARIABLES
    pc,                 \* position of the script
    cache,              \* what st.cache_data has stored
    raw,                \* the table load_data() returned
    df,                 \* the table preprocess_data(raw) returned
    df2,                \* the table preprocess_data(df) returned
    year_range,         \* value of the year slider  <<lo, hi>>
    selected_operator,  \* value of the operator select box
    selected_location,  \* value of the location select box
    filtered_df,        \* the filtered view
    metrics,            \* the four key metrics
    crashes_per_year,   \* value_counts of Year, sorted by index
    crashes_by_decade,  \* value_counts of Decade, sorted by index
    top_operators,      \* value_counts of Operator: head(10), later head(15)
    Top_locations,      \* value_counts of the location column, head(10)
    top_locations,      \* value_counts of the location column, head(15)
    summary_info,       \* "General Information" table
    missing_values,     \* "Missing Values" table
    operator_df,        \* "Top 15 Operators" table
    location_df         \* "Top 15 <location>s" table

vars == <<pc, cache, raw, df, df2, year_range, selected_operator, selected_location,
          filtered_df, metrics, crashes_per_year, crashes_by_decade,
          top_operators, Top_locations, top_locations, summary_info,
          missing_values, operator_df, location_df>>

----------------------------------------------------------------------------
(* Bounds of the model *)

\* greatest number of rows of a loaded table
MaxRows == 3

----------------------------------------------------------------------------
(* Values *)

\* the missing value of a numeric column (pandas NaN)
NaN == -1
\* the missing value of a datetime column (pandas NaT)
NaT == NaN
\* the missing value of a text column
None == "<NA>"
\* the match-all entry of the select boxes
All == "All"

TextCols == {"Operator", "Country", "Location"}

NullOf(c) == IF c \in TextCols THEN None ELSE NaN

Min(S) == CHOOSE x \in S : \A y \in S : x <= y
Max(S) == CHOOSE x \in S : \A y \in S : x >= y

Range(s) == {s[i] : i \in 1..Len(s)}

\* the values of column c, in row order
Column(d, c) == [i \in 1..Len(d.data) |-> d.data[i][c]]

EmptyFrame == [cols |-> {}, index |-> <<>>, data |-> <<>>]

----------------------------------------------------------------------------
(* preprocess_data *)

IsLeap(y) == (y % 4 = 0 /\ y % 100 # 0) \/ y % 400 = 0

DaysInMonth(y, m) ==
    IF m \in {4, 6, 9, 11} THEN 30
    ELSE IF m = 2 THEN (IF IsLeap(y) THEN 29 ELSE 28)
    ELSE 31

\* pd.to_datetime on one (Year, Month, Day) row with errors='coerce': the
\* row is assembled as the number Year * 10000 + Month * 100 + Day and that
\* number is parsed with the format %Y%m%d; a missing component, or digits
\* that name no day of the calendar, give NaT.  (Years are four-digit years
\* inside the range of a Timestamp.)
to_datetime(y, m, d) ==
    IF y = NaN \/ m = NaN \/ d = NaN THEN NaT
    ELSE LET n  == y * 10000 + m * 100 + d
             yy == n \div 10000
             mm == (n \div 100) % 100
             dd == n % 100
         IN  IF mm \in 1..12 /\ dd \in 1..DaysInMonth(yy, mm) THEN n ELSE NaT

\* df['Date'] = pd.to_datetime(df[['Year', 'Month', 'Day']], errors='coerce')
\* (assigning a column replaces a Date column that is already there)
WithDate(d) ==
    [cols  |-> d.cols \cup {"Date"},
     index |-> d.index,
     data  |-> [i \in 1..Len(d.data) |->
                  [c \in d.cols \cup {"Date"} |->
                     IF c = "Date"
                     THEN to_datetime(d.data[i]["Year"], d.data[i]["Month"],
                                      d.data[i]["Day"])
                     ELSE d.data[i][c]]]]

\* forward fill of one column: walk the rows in order, carrying the last
\* value that was not missing
RECURSIVE ffillAcc(_, _, _, _)
ffillAcc(s, null, last, acc) ==
    IF s = <<>> THEN acc
    ELSE LET v == IF Head(s) = null THEN last ELSE Head(s)
         IN  ffillAcc(Tail(s), null, v, Append(acc, v))

Reverse(s) == [i \in 1..Len(s) |-> s[Len(s) + 1 - i]]

\* backward fill: the fill run from the last row to the first
bfill(s, null) == Reverse(ffillAcc(Reverse(s), null, null, <<>>))

ffill(s, null) == ffillAcc(s, null, null, <<>>)

\* df.fillna(method='ffill'): every column is forward filled
fillna(d) ==
    [cols  |-> d.cols,
     index |-> d.index,
     data  |-> [i \in 1..Len(d.data) |->
                  [c \in d.cols |-> ffill(Column(d, c), NullOf(c))[i]]]]

\* lines 27-28: the Date column is written into the table passed in, so the
\* caller's table is changed by the call
Dated(d) == IF {"Year", "Month", "Day"} \subseteq d.cols THEN WithDate(d) ELSE d

\* lines 31-33: the table returned is a new one, the filled copy
preprocess_data(d) == fillna(Dated(d))

----------------------------------------------------------------------------
(* Sidebar widgets, lines 39-65 *)

NonNull(d, c) == {d.data[i][c] : i \in 1..Len(d.data)} \ {NullOf(c)}

\* df['Year'].min() and .max() skip missing values; they are NaN when no
\* value is left, and int(NaN) raises
HasYear(d) == NonNull(d, "Year") # {}
min_year(d) == Min(NonNull(d, "Year"))
max_year(d) == Max(NonNull(d, "Year"))

\* values the range slider can return: min_year <= lo <= hi <= max_year
SliderValues(d) ==
    {<<lo, hi>> : lo \in min_year(d)..max_year(d), hi \in min_year(d)..max_year(d)}
      \cap {r \in Int \X Int : r[1] <= r[2]}

\* 'Country' if 'Country' in df.columns else 'Location'
location_col(cols) == IF "Country" \in cols THEN "Country" ELSE "Location"

HasLocation(cols) == "Country" \in cols \/ "Location" \in cols

\* ['All'] + sorted(df[c].dropna().unique().tolist()), as the set of options
Options(d, c) == {All} \cup NonNull(d, c)

OperatorOptions(d) == IF "Operator" \in d.cols THEN Options(d, "Operator") ELSE {All}

LocationOptions(d) ==
    IF HasLocation(d.cols) THEN Options(d, location_col(d.cols)) ELSE {All}

----------------------------------------------------------------------------
(* Apply filters, lines 67-75 *)

\* d[mask]: the rows whose mask is true, in row order, with their labels
SelectReversed(d, mask) ==
    LET pos == SelectSeq([i \in 1..Len(d.data) |-> Len(d.data) + 1 - i],
                         LAMBDA i : mask[i])
    IN  [cols  |-> d.cols,
         index |-> [k \in 1..Len(pos) |-> d.index[pos[k]]],
         data  |-> [k \in 1..Len(pos) |-> d.data[pos[k]]]]

Select(d, mask) ==
    LET pos == SelectSeq([i \in 1..Len(d.data) |-> i], LAMBDA i : mask[i])
    IN  [cols  |-> d.cols,
         index |-> [k \in 1..Len(pos) |-> d.index[pos[k]]],
         data  |-> [k \in 1..Len(pos) |-> d.data[pos[k]]]]

\* (df['Year'] >= lo) & (df['Year'] <= hi); a comparison with NaN is False
YearMaskHiExclusive(y, r) == y # NaN /\ r[1] <= y /\ y < r[2]

YearMask(y, r) == y # NaN /\ r[1] <= y /\ y <= r[2]

\* filtered_df[col] == selected; a missing value equals nothing
EqMask(v, sel) == v # None /\ v = sel

\* df[(df['Year'] >= year_range[0]) & (df['Year'] <= year_range[1])]
ApplyYear(d, r) ==
    Select(d, [i \in 1..Len(d.data) |-> YearMask(d.data[i]["Year"], r)])

\* if 'Operator' in df.columns and selected_operator != 'All'
ApplyOperator(d, f, sel) ==
    IF "Operator" \in d.cols /\ sel # All
    THEN Select(f, [i \in 1..Len(f.data) |-> EqMask(f.data[i]["Operator"], sel)])
    ELSE f

\* if ('Country' in df.columns or 'Location' in df.columns)
\*    and selected_location != 'All'
ApplyLocation(d, f, sel) ==
    IF HasLocation(d.cols) /\ sel # All
    THEN Select(f, [i \in 1..Len(f.data) |->
                      EqMask(f.data[i][location_col(d.cols)], sel)])
    ELSE f

FilterView(d, r, op, loc) ==
    ApplyLocation(d, ApplyOperator(d, ApplyYear(d, r), op), loc)

----------------------------------------------------------------------------
(* Aggregations, lines 80-259 *)

\* a quotient a / b kept exact; b = 0 is the NaN of an empty mean
TrueDiv(a, b) == [num |-> a, den |-> b]

RECURSIVE SumSeq(_)
SumSeq(s) == IF s = <<>> THEN 0 ELSE Head(s) + SumSeq(Tail(s))

\* the values of column c that are not missing, in row order
dropna(f, c) == SelectSeq(Column(f, c), LAMBDA v : v # NullOf(c))

\* years_span = hi - lo + 1; len / years_span if years_span > 0 else 0
years_span(r) == r[2] - r[1] + 1

\* the span taken as hi - lo, without the + 1
avg_per_yearSpanShort(f, r) ==
    IF years_span(r) > 0 THEN TrueDiv(Len(f.data), years_span(r) - 1)
    ELSE TrueDiv(0, 1)

avg_per_year(f, r) ==
    IF years_span(r) > 0 THEN TrueDiv(Len(f.data), years_span(r))
    ELSE TrueDiv(0, 1)

\* the four st.metric values; Series.sum and Series.mean skip missing values
KeyMetrics(f, r) ==
    [total_crashes    |-> Len(f.data),
     avg_per_year     |-> avg_per_year(f, r),
     has_fatalities   |-> "Fatalities" \in f.cols,
     total_fatalities |-> IF "Fatalities" \in f.cols
                          THEN SumSeq(dropna(f, "Fatalities")) ELSE 0,
     avg_fatalities   |-> IF "Fatalities" \in f.cols
                          THEN TrueDiv(SumSeq(dropna(f, "Fatalities")),
                                       Len(dropna(f, "Fatalities")))
                          ELSE TrueDiv(0, 0)]

NoMetrics ==
    [total_crashes |-> 0, avg_per_year |-> TrueDiv(0, 1), has_fatalities |-> FALSE,
     total_fatalities |-> 0, avg_fatalities |-> TrueDiv(0, 0)]

\* number of rows of f whose column c holds v
Count(f, c, v) == Cardinality({i \in 1..Len(f.data) : f.data[i][c] = v})

\* all orders of the elements of S
Perms(S) ==
    {s \in [1..Cardinality(S) -> S] :
        \A i, j \in 1..Cardinality(S) : i # j => s[i] # s[j]}

\* Series.value_counts(): one <<value, count>> per distinct value that is
\* not missing, sorted by count, greatest first.  The sort is pandas'
\* default sort_values (kind='quicksort'), which is not a stable sort: the
\* order of values with equal counts is whatever the sort leaves.
value_counts(f, c) ==
    {[k \in 1..Len(s) |-> <<s[k], Count(f, c, s[k])>>] :
        s \in {p \in Perms(NonNull(f, c)) :
                 \A k \in 1..(Len(p) - 1) :
                    Count(f, c, p[k]) >= Count(f, c, p[k + 1])}}

\* Series.value_counts().sort_index(): sorted by value, ascending
RECURSIVE SortKeys(_)
SortKeys(S) == IF S = {} THEN <<>> ELSE <<Min(S)>> \o SortKeys(S \ {Min(S)})

counts_sorted_index(f, c) ==
    [k \in 1..Cardinality(NonNull(f, c)) |->
        <<SortKeys(NonNull(f, c))[k], Count(f, c, SortKeys(NonNull(f, c))[k])>>]

\* Series.head(n)
head(s, n) == SubSeq(s, 1, IF Len(s) < n THEN Len(s) ELSE n)

\* filtered_df['Decade'] = (filtered_df['Year'] // 10) * 10
decade_of(y) == IF y = NaN THEN NaN ELSE (y \div 10) * 10

WithDecade(f) ==
    [cols  |-> f.cols \cup {"Decade"},
     index |-> f.index,
     data  |-> [i \in 1..Len(f.data) |->
                  [c \in f.cols \cup {"Decade"} |->
                     IF c = "Decade" THEN decade_of(f.data[i]["Year"])
                     ELSE f.data[i][c]]]]

\* number of the ranking rows charted, and of those tabulated
ChartTop == 10
TableTop == 15

\* Series.min() / .max() of the view's years (NaN when there is none)
year_min_of(f) == IF HasYear(f) THEN min_year(f) ELSE NaN
year_max_of(f) == IF HasYear(f) THEN max_year(f) ELSE NaN

\* the "General Information" table (memory usage left out)
SummaryInfo(f) ==
    [total_rows    |-> Len(f.data),
     total_columns |-> Cardinality(f.cols),
     date_range    |-> <<year_min_of(f), year_max_of(f)>>]

NoSummary == [total_rows |-> 0, total_columns |-> 0, date_range |-> <<NaN, NaN>>]

\* filtered_df.isnull().sum() for one column
null_count(f, c) ==
    Cardinality({i \in 1..Len(f.data) : f.data[i][c] = NullOf(c)})

\* columns with missing values; missing_values[missing_values > 0]
MissingCols(f) == {c \in f.cols : null_count(f, c) > 0}

\* significant bits of a float64, the dtype of count / len
Precision == 53

\* bits handled at a time by the arithmetic below
Limb == 8

\* A positive float64 is [m, e]: m its significand in binary, most
\* significant bit first, at most Precision bits, and e the weight of the
\* last bit, so that the value is IntOf(m) * 2^e.

\* k zero bits
Zeros(k) == IF k <= 0 THEN <<>> ELSE [i \in 1..k |-> 0]

\* b without its leading zeros
Strip(b) ==
    IF \A i \in 1..Len(b) : b[i] = 0 THEN <<>>
    ELSE SubSeq(b, Min({i \in 1..Len(b) : b[i] = 1}), Len(b))

\* v < 2^n in n bits
Bits(v, n) == [i \in 1..n |-> (v \div 2 ^ (n - i)) % 2]

BitsOf(k) == Strip(Bits(k, 31))

RECURSIVE IntOf(_)
IntOf(b) ==
    IF b = <<>> THEN 0 ELSE 2 * IntOf(SubSeq(b, 1, Len(b) - 1)) + b[Len(b)]

\* b + 1
IncBits(b) ==
    IF \A i \in 1..Len(b) : b[i] = 1 THEN <<1>> \o Zeros(Len(b))
    ELSE LET j == Max({i \in 1..Len(b) : b[i] = 0})
         IN  SubSeq(b, 1, j - 1) \o <<1>> \o Zeros(Len(b) - j)

\* b * k + carry
RECURSIVE MulBits(_, _, _)
MulBits(b, k, carry) ==
    IF b = <<>> THEN BitsOf(carry)
    ELSE LET n == IF Len(b) < Limb THEN Len(b) ELSE Limb
             t == IntOf(SubSeq(b, Len(b) - n + 1, Len(b))) * k + carry
         IN  MulBits(SubSeq(b, 1, Len(b) - n), k, t \div 2 ^ n)
                \o Bits(t % 2 ^ n, n)

\* round to nearest, ties to even: x is an exact value [m, e, s] with any
\* number of bits, s telling that something nonzero lies below the last bit
RoundToDouble(x) ==
    IF Len(x.m) <= Precision THEN [m |-> x.m, e |-> x.e]
    ELSE LET keep == SubSeq(x.m, 1, Precision)
             rest == SubSeq(x.m, Precision + 1, Len(x.m))
             sticky == x.s \/ \E i \in 2..Len(rest) : rest[i] = 1
             up == rest[1] = 1 /\ (sticky \/ keep[Precision] = 1)
             m1 == IF up THEN IncBits(keep) ELSE keep
         IN  IF Len(m1) > Precision
             THEN [m |-> SubSeq(m1, 1, Precision), e |-> x.e + Len(rest) + 1]
             ELSE [m |-> m1, e |-> x.e + Len(rest)]

\* the bits of the quotient by long division, more than a float64 holds,
\* with the rest of the division as the sticky flag
RECURSIVE DivBits(_, _, _, _)
DivBits(r, len, acc, e) ==
    IF Len(acc) > Precision \/ (r = 0 /\ acc # <<>>)
    THEN [m |-> acc, e |-> e, s |-> r # 0]
    ELSE LET q == Bits((r * 2 ^ Limb) \div len, Limb)
         IN  DivBits((r * 2 ^ Limb) % len, len,
                     IF acc = <<>> THEN Strip(q) ELSE acc \o q, e - Limb)

\* n / len on int64 and int gives the float64 nearest to the quotient
true_divide(n, len) == RoundToDouble(DivBits(n % len, len, BitsOf(n \div len), 0))

\* x * 100 in float64
times100(x) == RoundToDouble([m |-> MulBits(x.m, 100, 0), e |-> x.e, s |-> FALSE])

\* numpy.rint: the nearest integer, a half going to the even one
rint(x) ==
    IF x.e >= 0 THEN IntOf(x.m) * 2 ^ x.e
    ELSE LET f == -x.e
             pad == Zeros(f + 1 - Len(x.m)) \o x.m
             ip == IntOf(SubSeq(pad, 1, Len(pad) - f))
             fr == SubSeq(pad, Len(pad) - f + 1, Len(pad))
             more == \E i \in 2..f : fr[i] = 1
         IN  IF fr[1] = 0 THEN ip
             ELSE IF more THEN ip + 1
             ELSE IF ip % 2 = 0 THEN ip ELSE ip + 1

\* (count / len * 100).round(2), in hundredths of a percent: the division
\* and the product are float64 operations, and round(2) multiplies by 100.0,
\* takes rint and divides by 100.0
percentage(n, len) ==
    IF n = 0 THEN 0 ELSE rint(times100(times100(true_divide(n, len))))

\* the "Missing Values" table: sort_values(ascending=False) by count; the
\* table is built only when a column has missing values, so len > 0 there
missing_report(f) ==
    {[k \in 1..Len(p) |->
        [column |-> p[k], missing_count |-> null_count(f, p[k]),
         percentage |-> percentage(null_count(f, p[k]), Len(f.data))]] :
        p \in {q \in Perms(MissingCols(f)) :
                 \A k \in 1..(Len(q) - 1) :
                    null_count(f, q[k]) >= null_count(f, q[k + 1])}}

\* pd.DataFrame({'Rank': range(1, len + 1), name: index, 'Crashes': values})
rank_table(vc) ==
    [k \in 1..Len(vc) |-> [rank |-> k, name |-> vc[k][1], crashes |-> vc[k][2]]]

----------------------------------------------------------------------------
(* Tables the script may load *)

\* a table with the given columns and rows; read_csv labels the rows 0, 1, ...
Frame(cols, rows) ==
    [cols  |-> cols,
     index |-> [i \in 1..Len(rows) |-> i - 1],
     data  |-> [i \in 1..Len(rows) |-> [c \in cols |-> rows[i][c]]]]

\* t is a table of 1..n rows drawn from Rows
IsFrameOf(t, cols, Rows, n) ==
    \E k \in 1..n : \E rows \in [1..k -> Rows] : t = Frame(cols, rows)

\* tables for the preprocessing stage: calendar columns with missing values
\* and days that do not exist (29 February 1999, 31 April), or a numeric
\* column with missing values
IsPreTable(t) ==
    \/ IsFrameOf(t, {"Year", "Month", "Day"},
                 [Year : {NaN, 1999, 2000}, Month : {2, 4}, Day : {NaN, 29, 31}],
                 MaxRows)
    \/ IsFrameOf(t, {"Year", "Fatalities"},
                 [Year : {NaN, 1990, 2005}, Fatalities : {NaN, 5, 10}],
                 MaxRows)

\* a (Year, Decade) row as a file would hold it: the decade, when present,
\* is the decade of the year, when that is present
DecadeRows ==
    {r \in [Year : {NaN, 1989, 1991}, Decade : {NaN, 1980, 1990}] :
        (r.Year # NaN /\ r.Decade # NaN) => r.Decade = (r.Year \div 10) * 10}

\* tables for the numeric side of the dashboard
IsDashTable(t) ==
    \/ IsFrameOf(t, {"Year", "Fatalities"},
                 [Year : {NaN, 1989, 1991}, Fatalities : {NaN, 5, 10}], MaxRows)
    \/ IsFrameOf(t, {"Year", "Decade"}, DecadeRows, MaxRows)

\* tables for the categorical side of the dashboard
IsCatTable(t) ==
    \/ IsFrameOf(t, {"Year", "Operator", "Country"},
                 [Year : {1989, 1990}, Operator : {"A", "B"}, Country : {"X", "Y"}],
                 MaxRows)
    \/ IsFrameOf(t, {"Year", "Operator"},
                 [Year : {1990}, Operator : {None, "A", "B", "C"}], MaxRows)
    \/ IsFrameOf(t, {"Year", "Country", "Location"},
                 [Year : {1990}, Country : {"X", "Y"}, Location : {"X", "Y"}],
                 MaxRows)
    \/ IsFrameOf(t, {"Year", "Location"},
                 [Year : {NaN, 1989, 1991}, Location : {None, "X"}], MaxRows)

----------------------------------------------------------------------------
(* The script *)

\* the first run: load_data() has run and its result is stored
Start ==
    /\ pc = "load"
    /\ cache = [load_data |-> raw, preprocess_data |-> <<>>]
    /\ df = EmptyFrame
    /\ df2 = EmptyFrame
    /\ year_range = <<0, 0>>
    /\ selected_operator = All
    /\ selected_location = All
    /\ filtered_df = EmptyFrame
    /\ metrics = NoMetrics
    /\ crashes_per_year = <<>>
    /\ crashes_by_decade = <<>>
    /\ top_operators = <<>>
    /\ Top_locations = <<>>
    /\ top_locations = <<>>
    /\ summary_info = NoSummary
    /\ missing_values = <<>>
    /\ operator_df = <<>>
    /\ location_df = <<>>

widgets == <<year_range, selected_operator, selected_location>>
outputs == <<metrics, crashes_per_year, crashes_by_decade, top_operators,
             Top_locations, top_locations, summary_info, missing_values, operator_df,
             location_df>>

\* lines 36-37: df = preprocess_data(load_data()); the loaded table gets the
\* Date column written into it
Preprocess ==
    /\ pc = "load"
    /\ cache.preprocess_data = <<>>
    /\ df' = preprocess_data(raw)
    /\ raw' = Dated(raw)
    /\ cache' = [cache EXCEPT !.preprocess_data = <<preprocess_data(raw)>>]
    /\ pc' = "ready"
    /\ UNCHANGED <<df2, widgets, filtered_df, outputs>>

\* line 37 on a rerun: st.cache_data has the result for this table, the body
\* of preprocess_data does not run and a copy of the stored result is returned
PreprocessCached ==
    /\ pc = "load"
    /\ cache.preprocess_data # <<>>
    /\ df' = cache.preprocess_data[1]
    /\ pc' = "ready"
    /\ UNCHANGED <<cache, raw, df2, widgets, filtered_df, outputs>>

\* preprocess_data applied to its own result, which it writes Date into
PreprocessAgain ==
    /\ pc = "ready"
    /\ df2' = preprocess_data(df)
    /\ df' = Dated(df)
    /\ pc' = "again"
    /\ UNCHANGED <<cache, raw, widgets, filtered_df, outputs>>

\* lines 43-44: int(df['Year'].min()) raises when no year is present, and
\* the script stops there
Abort ==
    /\ pc = "ready"
    /\ ~HasYear(df)
    /\ pc' = "crashed"
    /\ UNCHANGED <<cache, raw, df, df2, widgets, filtered_df, outputs>>

\* lines 39-65: the three sidebar widgets return the user's choices
Sidebar ==
    /\ pc = "ready"
    /\ HasYear(df)
    /\ year_range' \in SliderValues(df)
    /\ selected_operator' \in OperatorOptions(df)
    /\ selected_location' \in LocationOptions(df)
    /\ pc' = "sidebar"
    /\ UNCHANGED <<cache, raw, df, df2, filtered_df, outputs>>

\* lines 67-75
ApplyFilters ==
    /\ pc = "sidebar"
    /\ filtered_df' = FilterView(df, year_range, selected_operator, selected_location)
    /\ pc' = "filtered"
    /\ UNCHANGED <<cache, raw, df, df2, widgets, outputs>>

\* lines 80-106: the four key metrics
SummaryMetrics ==
    /\ pc = "filtered"
    /\ metrics' = KeyMetrics(filtered_df, year_range)
    /\ pc' = "metrics"
    /\ UNCHANGED <<cache, raw, df, df2, widgets, filtered_df, crashes_per_year,
                   crashes_by_decade, top_operators, Top_locations, top_locations,
                   summary_info,
                   missing_values, operator_df, location_df>>

\* lines 116-129: "Crashes Over Time"
CrashesOverTime ==
    /\ pc = "metrics"
    /\ crashes_per_year' = counts_sorted_index(filtered_df, "Year")
    /\ pc' = "by_year"
    /\ UNCHANGED <<cache, raw, df, df2, widgets, filtered_df, metrics, crashes_by_decade,
                   top_operators, Top_locations, top_locations,
                   summary_info, missing_values,
                   operator_df, location_df>>

\* lines 131-147: "Crashes by Decade"; the Decade column is added to the
\* view when the view has none
DecadeView(f) == IF "Decade" \notin f.cols THEN WithDecade(f) ELSE f

CrashesByDecade ==
    /\ pc = "by_year"
    /\ filtered_df' = DecadeView(filtered_df)
    /\ crashes_by_decade' = counts_sorted_index(DecadeView(filtered_df), "Decade")
    /\ pc' = "by_decade"
    /\ UNCHANGED <<cache, raw, df, df2, widgets, metrics, crashes_per_year, top_operators,
                   Top_locations, top_locations, summary_info, missing_values, operator_df,
                   location_df>>

\* value_counts().head(n) of column c, or nothing when the column is absent
TopCategories(f, c, n) ==
    IF c \in f.cols THEN {head(vc, n) : vc \in value_counts(f, c)} ELSE {<<>>}

\* lines 152-169: "Top 10 Operators"
TopOperators ==
    /\ pc = "by_decade"
    /\ top_operators' \in TopCategories(filtered_df, "Operator", ChartTop)
    /\ pc' = "top_operators"
    /\ UNCHANGED <<cache, raw, df, df2, widgets, filtered_df, metrics, crashes_per_year,
                   crashes_by_decade, Top_locations, top_locations, summary_info,
                   missing_values,
                   operator_df, location_df>>

\* lines 171-189: "Top 10 <location>s"
TopLocations ==
    /\ pc = "top_operators"
    /\ Top_locations' \in
          TopCategories(filtered_df, location_col(filtered_df.cols), ChartTop)
    /\ pc' = "top_locations"
    /\ UNCHANGED <<cache, raw, df, df2, widgets, filtered_df, metrics, crashes_per_year,
                   crashes_by_decade, top_operators, top_locations, summary_info,
                   missing_values,
                   operator_df, location_df>>

\* lines 198-229: "Summary Statistics" tab
SummaryTab ==
    /\ pc = "top_locations"
    /\ summary_info' = SummaryInfo(filtered_df)
    /\ missing_values' \in missing_report(filtered_df)
    /\ pc' = "summary"
    /\ UNCHANGED <<cache, raw, df, df2, widgets, filtered_df, metrics, crashes_per_year,
                   crashes_by_decade, top_operators, Top_locations, top_locations,
                   operator_df,
                   location_df>>

\* value_counts().head(15).  The same call on the same view was made for
\* the chart, and gives the same order again.
TopForTable(f, c, charted) ==
    {head(vc, TableTop) :
        vc \in {v \in value_counts(f, c) : head(v, ChartTop) = head(charted, ChartTop)}}

\* lines 231-259: "Top Rankings" tab ("Data Sample" shows the view as it
\* is).  Line 237 assigns top_operators again; line 249 assigns
\* top_locations, which is not the Top_locations of the chart.
RankingTab ==
    /\ pc = "summary"
    /\ IF "Operator" \in filtered_df.cols
       THEN /\ top_operators' \in TopForTable(filtered_df, "Operator", top_operators)
            /\ operator_df' = rank_table(top_operators')
       ELSE UNCHANGED <<top_operators, operator_df>>
    /\ IF HasLocation(filtered_df.cols)
       THEN /\ top_locations' \in
                  TopForTable(filtered_df, location_col(filtered_df.cols), Top_locations)
            /\ location_df' = rank_table(top_locations')
       ELSE UNCHANGED <<top_locations, location_df>>
    /\ pc' = "done"
    /\ UNCHANGED <<cache, raw, df, df2, widgets, filtered_df, metrics, crashes_per_year,
                   crashes_by_decade, Top_locations, summary_info, missing_values>>

\* the widgets have been drawn
Interactive ==
    pc \in {"sidebar", "filtered", "metrics", "by_year", "by_decade",
            "top_operators", "top_locations", "summary", "done"}

\* a widget is changed: Streamlit stops the script where it is and runs it
\* again from the top; line 36 is served from st.cache_data, a fresh copy of
\* the table as it was first loaded
Rerun ==
    /\ Interactive
    /\ pc' = "load"
    /\ raw' = cache.load_data
    /\ df' = EmptyFrame
    /\ year_range' = <<0, 0>>
    /\ selected_operator' = All
    /\ selected_location' = All
    /\ filtered_df' = EmptyFrame
    /\ metrics' = NoMetrics
    /\ crashes_per_year' = <<>>
    /\ crashes_by_decade' = <<>>
    /\ top_operators' = <<>>
    /\ Top_locations' = <<>>
    /\ top_locations' = <<>>
    /\ summary_info' = NoSummary
    /\ missing_values' = <<>>
    /\ operator_df' = <<>>
    /\ location_df' = <<>>
    /\ UNCHANGED <<cache, df2>>

Next ==
    \/ Preprocess
    \/ PreprocessCached
    \/ Abort
    \/ Sidebar
    \/ ApplyFilters
    \/ SummaryMetrics
    \/ CrashesOverTime
    \/ CrashesByDecade
    \/ TopOperators
    \/ TopLocations
    \/ SummaryTab
    \/ RankingTab
    \/ Rerun

\* the dashboard over tables of years, fatalities and decades
Init == IsDashTable(raw) /\ Start
Spec == Init /\ [][Next]_vars

\* the dashboard over tables with operator and location columns
InitCat == IsCatTable(raw) /\ Start
SpecCat == InitCat /\ [][Next]_vars

\* preprocess_data applied once and twice
InitPre == IsPreTable(raw) /\ Start
NextPre == Preprocess \/ PreprocessAgain
SpecPre == InitPre /\ [][NextPre]_vars

----------------------------------------------------------------------------
(* Properties of preprocess_data, checked under SpecPre *)

HasCalendar == {"Year", "Month", "Day"} \subseteq raw.cols

\* row i of the loaded table names a day of the calendar
RawComplete(i) ==
    raw.data[i]["Year"] # NaN /\ raw.data[i]["Month"] # NaN /\ raw.data[i]["Day"] # NaN

RawValidDate(i) ==
    /\ RawComplete(i)
    /\ raw.data[i]["Month"] \in 1..12
    /\ raw.data[i]["Day"] \in 1..DaysInMonth(raw.data[i]["Year"], raw.data[i]["Month"])

\* the value of column c in row i of table src before the missing values
\* are filled: the value src holds, or for Date the date composed from the row
Unfilled(src, i, c) ==
    IF c = "Date"
    THEN to_datetime(src.data[i]["Year"], src.data[i]["Month"], src.data[i]["Day"])
    ELSE src.data[i][c]

\* the nearest value at or before row i that is not missing, else missing
NearestBefore(src, i, c) ==
    LET J == {j \in 1..i : Unfilled(src, j, c) # NullOf(c)}
    IN  IF J = {} THEN NullOf(c) ELSE Unfilled(src, Max(J), c)

\* res is src with every column forward filled
FilledFrom(src, res) ==
    /\ res.index = src.index
    /\ Len(res.data) = Len(src.data)
    /\ \A i \in 1..Len(res.data) : \A c \in res.cols :
          /\ res.data[i][c] = NearestBefore(src, i, c)
          /\ (res.data[i][c] = NullOf(c) /\ i > 1) => res.data[i - 1][c] = NullOf(c)

\* C3 (as claimed): preprocess_data is idempotent: applied to its own
\* result, it returns a table equal to that result (as it was when passed
\* in) in every field of every record, the derived Date included.
C3_Idempotent == [][(pc = "ready" /\ pc' = "again") => df2' = df]_vars

\* C4 (as claimed): a record whose (Year, Month, Day) is not a day of the
\* calendar has a null Date in the preprocessed table, and every record that
\* names a day of the calendar has the date composed from its own fields.
C4_InvalidDateIsNull ==
    (pc = "ready" /\ HasCalendar) =>
        \A i \in 1..Len(raw.data) :
            /\ (RawComplete(i) /\ ~RawValidDate(i)) => df.data[i]["Date"] = NaT
            /\ RawValidDate(i) =>
                 df.data[i]["Date"] = raw.data[i]["Year"] * 10000
                                      + raw.data[i]["Month"] * 100 + raw.data[i]["Day"]

\* C5: forward fill per column in record order: every value of the
\* preprocessed table is the loaded (or composed) value when that is present,
\* else the nearest preceding present value of the column, else missing; no
\* record is dropped or relabelled, and the missing values left in a column
\* form a prefix of it.  The same holds of the second application.
C5_ForwardFill ==
    /\ pc = "ready" => FilledFrom(raw, df)
    /\ pc = "again" => FilledFrom(df, df2)

\* the scenario of the specification: fatalities [10, null, 5] become [10, 10, 5]
C5_Witness ==
    /\ pc = "ready"
    /\ "Fatalities" \in raw.cols
    /\ Column(raw, "Fatalities") = <<10, NaN, 5>>
    /\ Column(df, "Fatalities") = <<10, 10, 5>>

----------------------------------------------------------------------------
(* Properties of the filter step, checked under SpecCat *)

\* the script has built the view
HasView ==
    pc \in {"filtered", "metrics", "by_year", "by_decade", "top_operators",
            "top_locations", "summary", "done"}

\* the position in the dataset of the row labelled l
PosOf(l) == CHOOSE i \in 1..Len(df.index) : df.index[i] = l

\* C1: the view is a subset of the preprocessed dataset in the dataset's
\* order: every row of the view is a row of the dataset with the same label
\* and the same values, and the rows of the view follow one another as they
\* do in the dataset, so none is repeated.
C1_SubsetInOrder ==
    HasView =>
        /\ Len(filtered_df.index) = Len(filtered_df.data)
        /\ \A k \in 1..Len(filtered_df.index) :
              /\ \E i \in 1..Len(df.index) : df.index[i] = filtered_df.index[k]
              /\ \A c \in df.cols :
                    filtered_df.data[k][c] = df.data[PosOf(filtered_df.index[k])][c]
        /\ \A k, l \in 1..Len(filtered_df.index) :
              k < l => PosOf(filtered_df.index[k]) < PosOf(filtered_df.index[l])

\* a view of two rows that leaves out the row between them
C1_Witness ==
    /\ pc = "filtered"
    /\ Len(df.data) = 3
    /\ filtered_df.index = <<0, 2>>

\* the filter predicate of the specification, for row i of the dataset
Matches(i) ==
    /\ df.data[i]["Year"] # NaN
    /\ year_range[1] <= df.data[i]["Year"]
    /\ df.data[i]["Year"] <= year_range[2]
    /\ \/ selected_operator = All
       \/ IF "Operator" \in df.cols
          THEN df.data[i]["Operator"] = selected_operator ELSE FALSE
    /\ \/ selected_location = All
       \/ IF "Country" \in df.cols
          THEN df.data[i]["Country"] = selected_location
          ELSE IF "Location" \in df.cols
               THEN df.data[i]["Location"] = selected_location ELSE FALSE

\* C2: the view holds exactly the rows of the dataset whose year is in the
\* closed range and whose operator and location equal the selected ones
\* ('All' selects every value; the location is Country when the dataset has
\* it, else Location); a row without a year is never in the view.
C2_ExactlyMatching ==
    HasView =>
        /\ Range(filtered_df.index) = {df.index[i] : i \in {j \in 1..Len(df.data) : Matches(j)}}
        /\ Len(filtered_df.index) = Cardinality({j \in 1..Len(df.data) : Matches(j)})
        /\ \A k \in 1..Len(filtered_df.data) : filtered_df.data[k]["Year"] # NaN

\* all three constraints bite: a one-year range, an operator and a location
\* are selected, each alone keeps more rows than the three together
C2_Witness ==
    /\ pc = "filtered"
    /\ selected_operator # All
    /\ selected_location # All
    /\ year_range[1] = year_range[2]
    /\ Len(filtered_df.data) = 1
    /\ Len(ApplyYear(df, year_range).data) > 1
    /\ Len(ApplyOperator(df, df, selected_operator).data) > 1
    /\ Len(ApplyLocation(df, df, selected_location).data) > 1

----------------------------------------------------------------------------
(* Properties of the aggregations *)

Counts(vc) == SumSeq([k \in 1..Len(vc) |-> vc[k][2]])

HasDecadeCounts ==
    pc \in {"by_decade", "top_operators", "top_locations", "summary", "done"}

\* C6 (as claimed): the counts by decade sum to what the counts by year sum
\* to, and both sum to the number of rows of the view.
C6_DecadeSumIsYearSum ==
    HasDecadeCounts =>
        /\ Counts(crashes_by_decade) = Counts(crashes_per_year)
        /\ Counts(crashes_per_year) = Len(filtered_df.data)

\* the first row of the view that holds v in column c
FirstRow(f, c, v) == Min({i \in 1..Len(f.data) : f.data[i][c] = v})

\* the length and the order by frequency of a ranking of column c
RankedByCount(f, c, top, n) ==
    /\ Len(top) = IF Cardinality(NonNull(f, c)) < n
                  THEN Cardinality(NonNull(f, c)) ELSE n
    /\ \A k \in 1..Len(top) : top[k][2] = Count(f, c, top[k][1])
    /\ \A k \in 1..(Len(top) - 1) : top[k][2] >= top[k + 1][2]

\* values of equal frequency stand in the order of their first rows
TiesByFirstRow(f, c, top) ==
    \A k \in 1..(Len(top) - 1) :
        top[k][2] = top[k + 1][2] =>
            FirstRow(f, c, top[k][1]) < FirstRow(f, c, top[k + 1][1])

HasTopOperators == pc \in {"top_operators", "top_locations", "summary", "done"}

\* the n of the ranking top_operators holds: 10 for the chart, 15 once the
\* table is built
TopShown == IF pc = "done" THEN TableTop ELSE ChartTop

\* C7 (as claimed): the operator ranking has min(n, distinct values) entries
\* in non-increasing order of frequency, values of equal frequency in the
\* order of their first occurrence in the view.
C7_TopCategories ==
    (HasTopOperators /\ "Operator" \in filtered_df.cols) =>
        /\ RankedByCount(filtered_df, "Operator", top_operators, TopShown)
        /\ TiesByFirstRow(filtered_df, "Operator", top_operators)

\* the part of C7 the code does guarantee: length and order by frequency,
\* for the charted ranking and for the tabulated one
C7_LengthAndFrequencyOrder ==
    /\ (HasTopOperators /\ "Operator" \in filtered_df.cols) =>
          RankedByCount(filtered_df, "Operator", top_operators, TopShown)
    /\ (pc = "done" /\ HasLocation(filtered_df.cols)) =>
          RankedByCount(filtered_df, location_col(filtered_df.cols), top_locations,
                        TableTop)
    /\ (pc = "done" /\ "Operator" \in filtered_df.cols) =>
          /\ Len(operator_df) = Len(top_operators)
          /\ \A k \in 1..Len(operator_df) : operator_df[k].rank = k
          /\ \A k \in 1..(Len(operator_df) - 1) :
                operator_df[k].crashes >= operator_df[k + 1].crashes

HasMetrics ==
    pc \in {"metrics", "by_year", "by_decade", "top_operators", "top_locations",
            "summary", "done"}

\* C8: over an empty view the metrics are total = 0 and average per year = 0,
\* and no step divides by zero: the average per year is total / span with
\* span = hi - lo + 1 >= 1, the missing-value percentages are taken only
\* when the view has rows, and the script runs on to its end.
C8_EmptyViewIsSafe ==
    /\ HasMetrics =>
          /\ metrics.total_crashes = Len(filtered_df.data)
          /\ metrics.avg_per_year.den = year_range[2] - year_range[1] + 1
          /\ metrics.avg_per_year.den >= 1
          /\ metrics.avg_per_year.num = Len(filtered_df.data)
    /\ (HasMetrics /\ Len(filtered_df.data) = 0) =>
          /\ metrics.total_crashes = 0
          /\ metrics.avg_per_year.num = 0
    /\ (pc \in {"summary", "done"} /\ missing_values # <<>>) => Len(filtered_df.data) > 0
    /\ (HasView /\ pc # "done" /\ Len(filtered_df.data) = 0) =>
          ENABLED (SummaryMetrics \/ CrashesOverTime \/ CrashesByDecade
                      \/ TopOperators \/ TopLocations \/ SummaryTab
                      \/ RankingTab)

\* the script has run to its end over an empty view
C8_Witness ==
    /\ pc = "done"
    /\ Len(filtered_df.data) = 0
    /\ metrics.total_crashes = 0
    /\ metrics.avg_per_year = TrueDiv(0, years_span(year_range))

\* the script is in its aggregation part
Aggregating ==
    pc \in {"filtered", "metrics", "by_year", "by_decade", "top_operators",
            "top_locations", "summary"}

\* C9 (as claimed): no aggregation step changes the view or the dataset:
\* the same rows, the same columns, the same values before and after.
C9_AggregationsArePure ==
    [][(Aggregating /\ pc' # "load") =>
            (filtered_df' = filtered_df /\ df' = df)]_vars

\* C10 (as claimed): every decade the counts by decade are grouped on is a
\* multiple of 10, is at most the year of its row and is (year // 10) * 10,
\* for a Decade column computed by the view step and for one retained from
\* the dataset.
C10_DecadeOfYear ==
    HasDecadeCounts =>
        \A i \in 1..Len(filtered_df.data) :
            filtered_df.data[i]["Decade"] # NaN =>
                /\ filtered_df.data[i]["Decade"] % 10 = 0
                /\ filtered_df.data[i]["Decade"] <= filtered_df.data[i]["Year"]
                /\ filtered_df.data[i]["Decade"]
                      = (filtered_df.data[i]["Year"] \div 10) * 10
====
